---------------------------- MODULE Spec2Model ----------------------------
(* A model of bot.py: the RSS feed monitor (RSSFeedMonitor), its persisted   *)
(* feed registry (load_feeds / save_feeds), the module-wide ledger           *)
(* posted_articles, and the /check command that runs an immediate pass.      *)
(* Every action is one run of a coroutine from the point where it resumes    *)
(* to its next await: asyncio runs that stretch without interleaving.        *)
EXTENDS Integers, Sequences, FiniteSets, TLC

\* ------------------------------------------------------------------ bounds
\* The urls the registry operations are called with.
Urls == {"u1", "u2", "u3"}
\* The urls of the registry when passes run over it.
PassUrls == {"u1", "u2"}
Names == {"n1"}
\* The start() coroutines the model lets run, and the /check handlers.
Loops == {"L1", "L2"}
Cmds == {"K1"}
Tasks == Loops \cup Cmds
\* The Telegram users who send commands, and ADMIN_IDS as the environment
\* gives it: "1,12" split at the commas.
Users == {1, 2, 12}
ADMIN_IDS == {"1", "12"}
\* A key a feedparser entry does not have.
Absent == "<absent>"
\* The entries a fetch can find first in a feed: (id, link).
Entries ==
  { [id |-> "e1", link |-> "l1"],
    [id |-> Absent, link |-> "l1"],
    [id |-> "", link |-> "l1"],
    [id |-> Absent, link |-> Absent] }
Ids == {"e1", "l1"}
\* The slice check_feed takes of feed.entries: entries[:1].
EntryLimit == 1
\* A fetched feed has this many entries at most.
MaxEntries == 2
\* The characters a CHANNEL_ID is written with, and its longest length.
Chars == {"@", "-", "7", "c"}
MaxLen == 3
\* The CHANNEL_ID of the runs that are not about it.
DefaultChannel == <<"@", "c">>
\* The registry never grows beyond this many feeds.
MaxFeeds == 3
\* A successful send is counted up to this many per identifier.
MaxSent == 3

VARIABLES
  feeds,            \* self.feeds: the list object the monitor holds
  disk,             \* the file rss_feeds.json
  ret,              \* what the last add_feed / remove_feed returned
  last,             \* the handler or resumption that ran last
  posted_articles,  \* the module-wide set of posted identifiers
  sent,             \* the channel: messages delivered, per identifier
  running,          \* self.running
  session,          \* self.session: "None", "open" or "closed"
  stopping,         \* a stop() call is suspended in session.close()
  pc,               \* where each coroutine is suspended
  idx,              \* the list iterator's index of each pass
  old,              \* the list object a pass iterates when reload_feeds replaced self.feeds
  cur,              \* the entry identifier a pass is posting
  snapshot,         \* the urls registered when each pass began
  visited,          \* the urls each pass has called check_feed with
  CHANNEL_ID,       \* the environment's CHANNEL_ID, a string of characters
  chat_id           \* the chat_id of the send_message each pass is waiting for

vars == <<feeds, disk, ret, last, posted_articles, sent, running, session, stopping,
          pc, idx, old, cur, snapshot, visited, CHANNEL_ID, chat_id>>

passVars == <<pc, idx, old, cur, snapshot, visited, chat_id>>
envVars == <<CHANNEL_ID>>
lifeVars == <<running, session, stopping>>
regVars == <<feeds, disk, ret>>
chanVars == <<posted_articles, sent>>

\* --------------------------------------------------------------- helpers
RECURSIVE SeqUrls(_)
SeqUrls(s) == IF s = <<>> THEN <<>> ELSE <<Head(s).url>> \o SeqUrls(Tail(s))

UrlSet(s) == {s[i].url : i \in 1..Len(s)}

DistinctUrls(s) == \A i, j \in 1..Len(s) : s[i].url = s[j].url => i = j

RemoveAt(s, i) == SubSeq(s, 1, i - 1) \o SubSeq(s, i + 1, Len(s))

\* The lists of feeds with distinct urls drawn from U, up to n feeds.
RECURSIVE FeedLists(_, _)
FeedLists(U, n) ==
  IF n = 0 THEN {<<>>}
  ELSE LET shorter == FeedLists(U, n - 1)
       IN shorter \cup
          UNION { { Append(s, [url |-> u, name |-> m]) :
                      u \in U \ UrlSet(s), m \in Names } :
                  s \in {x \in shorter : Len(x) = n - 1} }

\* The strings over Chars of length n at most, as sequences of characters.
Strings(n) == UNION { [1..k -> Chars] : k \in 0..n }

\* The file after a hand edit: any of its objects may have lost its "name".
EditedLists(U, n) ==
  { [i \in 1..Len(s) |->
       IF i \in B THEN [url |-> s[i].url, name |-> Absent] ELSE s[i]] :
    s \in FeedLists(U, n), B \in SUBSET (1..n) }

\* ------------------------------------------------- the persisted registry
\* json.dump writes each feed as an object of the document; the document is
\* kept as the sequence of (url, name) pairs it holds.
JsonDump(fs) == [i \in 1..Len(fs) |-> <<fs[i].url, fs[i].name>>]

JsonLoad(doc) == [i \in 1..Len(doc) |-> [url |-> doc[i][1], name |-> doc[i][2]]]

\* load_feeds: a missing file and a file json.load rejects both give [].
load_feeds(d) == IF d.kind = "json" THEN JsonLoad(d.doc) ELSE <<>>

\* How a write of the file can end: written; open() refused (the file keeps
\* its content); open() truncated the file and the dump failed part way.
SaveOutcomes == {"ok", "open_fail", "write_fail"}

saved_disk(d, fs, outcome) ==
  CASE outcome = "ok" -> [kind |-> "json", doc |-> JsonDump(fs)]
    [] outcome = "open_fail" -> d
    [] OTHER -> [kind |-> "corrupt", doc |-> <<>>]

\* A save_feeds that returns True from outside its try block.
save_feeds_ret_always(outcome) == TRUE

\* save_feeds returns True only when the with block ran to its end.
save_feeds_ret(outcome) == outcome = "ok"

\* ---------------------------------------------------------- registry ops
\* An add_feed with no scan for the url.
add_present_never(fs, url) == FALSE

\* An add_feed whose scan looks at the first feed only.
add_present_first_only(fs, url) == Len(fs) >= 1 /\ fs[1].url = url

\* add_feed's scan for the url.
add_present(fs, url) == \E i \in 1..Len(fs) : fs[i].url = url

\* The list after add_feed's append; the append is never undone.
add_result(fs, url, name) == Append(fs, [url |-> url, name |-> name])

add_feed(url, name) ==
  /\ Len(feeds) < MaxFeeds \/ add_present(feeds, url)
  /\ last' = "add_feed"
  /\ IF add_present(feeds, url)
       THEN /\ ret' = FALSE
            /\ UNCHANGED <<feeds, disk>>
       ELSE \E outcome \in SaveOutcomes :
              /\ feeds' = add_result(feeds, url, name)
              /\ disk' = saved_disk(disk, feeds', outcome)
              /\ ret' = save_feeds_ret(outcome)
  /\ UNCHANGED <<envVars, chanVars, lifeVars, passVars>>

\* A remove_feed that deletes the last feed when the url is not found.
remove_index_or_last(fs, url) ==
  IF \E i \in 1..Len(fs) : fs[i].url = url
    THEN CHOOSE i \in 1..Len(fs) :
           fs[i].url = url /\ \A j \in 1..(i - 1) : fs[j].url # url
    ELSE Len(fs)

\* remove_feed's enumerate: the first index holding the url, 0 if none.
remove_index(fs, url) ==
  IF \E i \in 1..Len(fs) : fs[i].url = url
    THEN CHOOSE i \in 1..Len(fs) :
           fs[i].url = url /\ \A j \in 1..(i - 1) : fs[j].url # url
    ELSE 0

\* The list after remove_feed found the url at index i: del runs before the save.
remove_result(fs, i) == RemoveAt(fs, i)

remove_feed(url) ==
  LET i == remove_index(feeds, url)
  IN /\ last' = "remove_feed"
     /\ IF i = 0
          THEN /\ ret' = FALSE
               /\ UNCHANGED <<feeds, disk>>
          ELSE \E outcome \in SaveOutcomes :
                 /\ feeds' = remove_result(feeds, i)
                 /\ disk' = saved_disk(disk, feeds', outcome)
                 /\ ret' = save_feeds_ret(outcome)
     /\ UNCHANGED <<envVars, chanVars, lifeVars, passVars>>

\* reload_feeds binds self.feeds to a new list; a pass that is iterating the
\* old list object keeps it, and add_feed / remove_feed no longer reach it.
InPass == {"fetch", "post", "sleep2"}

Live == [live |-> TRUE, items |-> <<>>]

reload_feeds ==
  /\ last' = "reload_feeds"
  /\ feeds' = load_feeds(disk)
  /\ old' = [t \in Tasks |->
               IF pc[t] \in InPass /\ old[t].live
                 THEN [live |-> FALSE, items |-> feeds]
                 ELSE old[t]]
  /\ UNCHANGED <<envVars, disk, ret, chanVars, lifeVars, pc, idx, cur, chat_id,
               snapshot, visited>>

\* ------------------------------------------------------------- one pass
\* The list object the pass of task t iterates.
ListOf(t) == IF old[t].live THEN feeds ELSE old[t].items

\* Where a coroutine rests once its pass is over: start() sleeps
\* CHECK_INTERVAL, the /check handler returns.
AfterPass(t) == IF t \in Loops THEN "sleep" ELSE "idle"

\* Where a coroutine rests once an exception left its pass: start() catches
\* it and sleeps 60 seconds, the /check handler answers and returns.
AfterError_ends_loop(t) == "idle"

AfterError(t) == IF t \in Loops THEN "retry" ELSE "idle"

\* The sleeps of start(): CHECK_INTERVAL after a pass, 60 seconds after an
\* exception.
Sleeping == {"sleep", "retry"}

\* check_feed's entry: a missing session is created; a closed one is kept.
session_for_fetch(s) == IF s = "None" THEN "open" ELSE s

\* The for loop of check_all_feeds from iterator index i to its next await.
\* The iterator reads the list as it is now. A feed without "name" raises
\* KeyError in the try block and again in its except block, which leaves
\* check_all_feeds. With a closed session every session.get raises at once,
\* check_feed returns, and the loop runs on.
RECURSIVE NextFeed(_, _, _)
NextFeed(L, i, s) ==
  IF i >= Len(L)
    THEN [idx |-> i, sess |-> s, visit |-> <<>>, fetch |-> FALSE,
          raised |-> FALSE]
    ELSE IF L[i + 1].name = Absent
      THEN [idx |-> i, sess |-> s, visit |-> <<>>, fetch |-> FALSE,
            raised |-> TRUE]
      ELSE IF session_for_fetch(s) = "closed"
        THEN LET r == NextFeed(L, i + 1, s)
             IN [r EXCEPT !.visit = <<L[i + 1].url>> \o @]
        ELSE [idx |-> i + 1, sess |-> session_for_fetch(s),
              visit |-> <<L[i + 1].url>>, fetch |-> TRUE, raised |-> FALSE]

\* Where task t rests when its for loop ended as r says.
PassEnd(t, r) == IF r.raised THEN AfterError(t) ELSE AfterPass(t)

\* Task t runs its for loop on from index i, with self.session = s.
Continue(t, i, s) ==
  LET r == NextFeed(ListOf(t), i, s)
  IN /\ session' = r.sess
     /\ visited' = [visited EXCEPT ![t] = @ \o r.visit]
     /\ cur' = [cur EXCEPT ![t] = ""]
     /\ chat_id' = [chat_id EXCEPT ![t] = <<>>]
     /\ IF r.fetch
          THEN /\ pc' = [pc EXCEPT ![t] = "fetch"]
               /\ idx' = [idx EXCEPT ![t] = r.idx]
               /\ old' = old
          ELSE /\ pc' = [pc EXCEPT ![t] = PassEnd(t, r)]
               /\ idx' = [idx EXCEPT ![t] = 0]
               /\ old' = [old EXCEPT ![t] = Live]
     /\ UNCHANGED snapshot

\* check_all_feeds from its call to its first await, with self.session = s.
BeginPass(t, s) ==
  IF feeds = <<>>
    THEN /\ pc' = [pc EXCEPT ![t] = AfterPass(t)]
         /\ session' = s
         /\ snapshot' = [snapshot EXCEPT ![t] = <<>>]
         /\ visited' = [visited EXCEPT ![t] = <<>>]
         /\ UNCHANGED <<idx, old, cur, chat_id>>
    ELSE LET r == NextFeed(feeds, 0, s)
         IN /\ session' = r.sess
            /\ snapshot' = [snapshot EXCEPT ![t] = SeqUrls(feeds)]
            /\ visited' = [visited EXCEPT ![t] = r.visit]
            /\ cur' = [cur EXCEPT ![t] = ""]
            /\ chat_id' = [chat_id EXCEPT ![t] = <<>>]
            /\ old' = [old EXCEPT ![t] = Live]
            /\ IF r.fetch
                 THEN /\ pc' = [pc EXCEPT ![t] = "fetch"]
                      /\ idx' = [idx EXCEPT ![t] = r.idx]
                 ELSE /\ pc' = [pc EXCEPT ![t] = PassEnd(t, r)]
                      /\ idx' = [idx EXCEPT ![t] = 0]

\* str.startswith for a one-character prefix.
startswith(s, c) == Len(s) >= 1 /\ s[1] = c

\* str.lstrip for one character: every leading c is dropped.
RECURSIVE lstrip(_, _)
lstrip(s, c) == IF s # <<>> /\ Head(s) = c THEN lstrip(Tail(s), c) ELSE s

\* str.isdigit: at least one character and every character a digit.
Digits == {"0", "1", "2", "3", "4", "5", "6", "7", "8", "9"}

isdigit(s) == s # <<>> /\ \A i \in 1..Len(s) : s[i] \in Digits

\* post_entry's channel_id for CHANNEL_ID c (main computes the same).
channel_id(c) ==
  IF ~startswith(c, "@") /\ ~isdigit(lstrip(c, "-")) THEN <<"@">> \o c ELSE c

\* entry.get("id", entry.get("link", ""))
entry_id(e) ==
  IF e.id # Absent THEN e.id ELSE IF e.link # Absent THEN e.link ELSE ""

\* A check_feed that never looks the identifier up in the ledger.
skip_entry_without_ledger(id, ledger) == id = ""

\* check_feed's test before post_entry: continue when it holds.
skip_entry(id, ledger) == id = "" \/ id \in ledger

\* What a fetch can come back with: a status other than 200, a ClientError or
\* timeout, a feed feedparser flags bozo, a feed with no entries.
FetchFailures == {"http_status", "network_error", "bozo", "no_entries"}

\* A check_all_feeds without its try/except: a failed fetch ends the pass.
FetchFail_aborts(t) ==
  /\ pc[t] = "fetch"
  /\ last' = "fetch_fail"
  /\ pc' = [pc EXCEPT ![t] = AfterPass(t)]
  /\ idx' = [idx EXCEPT ![t] = 0]
  /\ old' = [old EXCEPT ![t] = Live]
  /\ cur' = [cur EXCEPT ![t] = ""]
  /\ chat_id' = [chat_id EXCEPT ![t] = <<>>]
  /\ UNCHANGED <<envVars, regVars, chanVars, lifeVars, snapshot, visited>>

\* The fetch of task t ends without an entry to look at.
FetchFail(t) ==
  /\ pc[t] = "fetch"
  /\ \E f \in FetchFailures : Continue(t, idx[t], session)
  /\ last' = "fetch_fail"
  /\ UNCHANGED <<envVars, regVars, chanVars, running, stopping>>

\* The fetch of task t returns a feed whose first entry is e: the ledger is
\* looked up and, for a new identifier, post_entry runs to its send_message.
FetchEntry(t, e) ==
  /\ pc[t] = "fetch"
  /\ IF skip_entry(entry_id(e), posted_articles)
       THEN /\ Continue(t, idx[t], session)
            /\ last' = IF entry_id(e) = "" THEN "skip_noid" ELSE "skip_seen"
       ELSE /\ last' = "dispatch"
            /\ pc' = [pc EXCEPT ![t] = "post"]
            /\ cur' = [cur EXCEPT ![t] = entry_id(e)]
            /\ chat_id' = [chat_id EXCEPT ![t] = channel_id(CHANNEL_ID)]
            /\ UNCHANGED <<session, idx, old, snapshot, visited>>
  /\ UNCHANGED <<envVars, regVars, chanVars, running, stopping>>

\* reversed(...)
RECURSIVE Reverse(_)
Reverse(s) == IF s = <<>> THEN <<>> ELSE Append(Reverse(Tail(s)), Head(s))

\* A check_feed that slices nothing off: every entry of the feed is taken.
first_entries_all(es) == es

\* feed.entries[:1]
first_entries(es) ==
  SubSeq(es, 1, IF Len(es) < EntryLimit THEN Len(es) ELSE EntryLimit)

\* The feeds a fetch can return with entries in them.
Feeds == UNION { [1..k -> Entries] : k \in 1..MaxEntries }

\* The fetch of task t returns the feed es: check_feed walks
\* reversed(feed.entries[:1]), which holds one entry.
FetchFeed(t, es) ==
  /\ es # <<>>
  /\ FetchEntry(t, Reverse(first_entries(es))[1])

Bump(n) == IF n < MaxSent THEN n + 1 ELSE n

\* The ledger after post_entry returned True for identifier id.
mark_posted(ledger, id) == ledger \cup {id}

\* send_message returned: the message is in the channel, post_entry returns
\* True, the identifier is added and check_feed sleeps 2 seconds.
PostOk(t) ==
  /\ pc[t] = "post"
  /\ last' = "post_ok"
  /\ sent' = [sent EXCEPT ![cur[t]] = Bump(@)]
  /\ posted_articles' = mark_posted(posted_articles, cur[t])
  /\ pc' = [pc EXCEPT ![t] = "sleep2"]
  /\ UNCHANGED <<envVars, regVars, lifeVars, idx, old, cur, snapshot, visited,
               chat_id>>

\* A check_feed that adds the identifier whatever post_entry returned.
mark_failed_as_posted(ledger, id) == ledger \cup {id}

\* The ledger after post_entry returned False for identifier id.
mark_failed(ledger, id) == ledger

\* send_message raised: post_entry returns False and the loop goes on.
PostFail(t) ==
  /\ pc[t] = "post"
  /\ last' = "post_fail"
  /\ posted_articles' = mark_failed(posted_articles, cur[t])
  /\ Continue(t, idx[t], session)
  /\ UNCHANGED <<envVars, regVars, sent, running, stopping>>

\* asyncio.sleep(2) is over.
Sleep2Done(t) ==
  /\ pc[t] = "sleep2"
  /\ last' = "sleep2"
  /\ Continue(t, idx[t], session)
  /\ UNCHANGED <<envVars, regVars, chanVars, running, stopping>>

\* cmd_check_feeds by an admin: an immediate pass.
cmd_check_feeds(k) ==
  /\ pc[k] = "idle"
  /\ last' = "check"
  /\ BeginPass(k, session)
  /\ UNCHANGED <<envVars, regVars, chanVars, running, stopping>>

\* ------------------------------------------------------- command handlers
\* A handler that never looks at the caller.
is_admin_anyone(user_id) == TRUE

\* is_admin: the decimal text of the caller's id is one of ADMIN_IDS.
is_admin(user_id) == ToString(user_id) \in ADMIN_IDS

\* The handler answers that the caller has no permission, and returns.
Refuse ==
  /\ last' = "denied"
  /\ UNCHANGED <<envVars, regVars, chanVars, lifeVars, passVars>>

\* /add url name, from user c. Past the caller test the handler validates
\* the url and fetches the feed once, and calls add_feed when both pass.
cmd_add_feed(c, url, name) ==
  IF ~is_admin(c)
    THEN Refuse
    ELSE \/ /\ last' = "add_rejected"
            /\ UNCHANGED <<envVars, regVars, chanVars, lifeVars, passVars>>
         \/ add_feed(url, name)

\* /list, from user c: the registry is read and sent back.
cmd_list_feeds(c) ==
  IF ~is_admin(c)
    THEN Refuse
    ELSE /\ last' = "list"
         /\ UNCHANGED <<envVars, regVars, chanVars, lifeVars, passVars>>

\* /remove url, from user c.
cmd_remove_feed(c, url) ==
  IF ~is_admin(c) THEN Refuse ELSE remove_feed(url)

\* /check, from user c, served by handler k.
cmd_check(c, k) ==
  /\ pc[k] = "idle"
  /\ IF ~is_admin(c) THEN Refuse ELSE cmd_check_feeds(k)

\* ------------------------------------------------------------ scheduler
\* A start() without its test of self.running.
start_unguarded(l) ==
  /\ pc[l] = "idle"
  /\ last' = "start"
  /\ running' = TRUE
  /\ BeginPass(l, "open")
  /\ UNCHANGED <<envVars, regVars, chanVars, stopping>>

\* start(): returns at once when running; else sets the flag, opens a
\* session and enters the loop.
start(l) ==
  /\ pc[l] = "idle"
  /\ IF running
       THEN /\ last' = "start_noop"
            /\ UNCHANGED <<running, session, passVars>>
       ELSE /\ last' = "start"
            /\ running' = TRUE
            /\ BeginPass(l, "open")
  /\ UNCHANGED <<envVars, regVars, chanVars, stopping>>

\* A loop that never tests self.running again.
Wake_ignores_flag(l) ==
  /\ pc[l] \in Sleeping
  /\ last' = "wake"
  /\ BeginPass(l, session)
  /\ UNCHANGED <<envVars, regVars, chanVars, running, stopping>>

\* asyncio.sleep(CHECK_INTERVAL) or asyncio.sleep(60) is over: the while test.
Wake(l) ==
  /\ pc[l] \in Sleeping
  /\ IF running
       THEN /\ last' = "wake"
            /\ BeginPass(l, session)
       ELSE /\ last' = "exit"
            /\ pc' = [pc EXCEPT ![l] = "idle"]
            /\ UNCHANGED <<session, idx, old, cur, snapshot, visited, chat_id>>
  /\ UNCHANGED <<envVars, regVars, chanVars, running, stopping>>

\* stop(): clears the flag and, if a session is held, closes it. close()
\* may finish without yielding or suspend the caller. stop() is called by
\* one caller at a time (main's finally block).
stop ==
  /\ ~stopping
  /\ last' = IF running THEN "stop" ELSE "stop_again"
  /\ running' = FALSE
  /\ IF session = "None"
       THEN UNCHANGED <<session, stopping>>
       ELSE \/ /\ session' = "None"
               /\ UNCHANGED stopping
            \/ /\ session' = "closed"
               /\ stopping' = TRUE
  /\ UNCHANGED <<envVars, regVars, chanVars, passVars>>

\* session.close() returned: self.session = None.
StopFinish ==
  /\ stopping
  /\ last' = "stop_finish"
  /\ stopping' = FALSE
  /\ session' = "None"
  /\ UNCHANGED <<envVars, regVars, chanVars, running, passVars>>

\* -------------------------------------------------------- specifications
\* The file at start-up: a registry over urls U, unreadable, or missing.
InitDisks(U) ==
  { [kind |-> "json", doc |-> JsonDump(fs)] : fs \in FeedLists(U, MaxFeeds) }
    \cup { [kind |-> "corrupt", doc |-> <<>>], [kind |-> "absent", doc |-> <<>>] }

\* The file at start-up when somebody edited it by hand.
EditedDisks(U) ==
  { [kind |-> "json", doc |-> JsonDump(fs)] : fs \in EditedLists(U, MaxFeeds) }
    \cup { [kind |-> "corrupt", doc |-> <<>>], [kind |-> "absent", doc |-> <<>>] }

\* RSSFeedMonitor.__init__ and the module's globals, on one of the files D
\* and with one of the channel ids C in the environment.
InitOn(D, C) ==
  /\ disk \in D
  /\ CHANNEL_ID \in C
  /\ chat_id = [t \in Tasks |-> <<>>]
  /\ feeds = load_feeds(disk)
  /\ ret = FALSE
  /\ last = "init"
  /\ posted_articles = {}
  /\ sent = [i \in Ids |-> 0]
  /\ running = FALSE
  /\ session = "None"
  /\ stopping = FALSE
  /\ pc = [t \in Tasks |-> "idle"]
  /\ idx = [t \in Tasks |-> 0]
  /\ old = [t \in Tasks |-> Live]
  /\ cur = [t \in Tasks |-> ""]
  /\ snapshot = [t \in Tasks |-> <<>>]
  /\ visited = [t \in Tasks |-> <<>>]

InitFrom(U) == InitOn(InitDisks(U), {DefaultChannel})

Init == InitFrom(PassUrls)

InitEdited == InitOn(EditedDisks(PassUrls), {DefaultChannel})

\* Any CHANNEL_ID main() accepts: a non-empty string.
InitChannel == InitOn(InitDisks(PassUrls), Strings(MaxLen) \ {<<>>})

InitRegistry == InitFrom(Urls)

Registry(U) ==
  \/ \E u \in U, n \in Names : add_feed(u, n)
  \/ \E u \in U : remove_feed(u)
  \/ reload_feeds

Pass ==
  \/ \E t \in Tasks : FetchFail(t)
  \/ \E t \in Tasks, e \in Entries : FetchEntry(t, e)
  \/ \E t \in Tasks : PostOk(t)
  \/ \E t \in Tasks : PostFail(t)
  \/ \E t \in Tasks : Sleep2Done(t)
  \/ \E k \in Cmds : cmd_check_feeds(k)

Scheduler ==
  \/ \E l \in Loops : start(l)
  \/ \E l \in Loops : Wake(l)
  \/ stop
  \/ StopFinish

\* The monitor with a registry nobody edits: the scheduler, /check, stop().
\* add_feed, remove_feed and reload_feeds write neither the ledger nor the
\* session nor the running flag; SpecRegistry and SpecEdit hold them.
Next == Pass \/ Scheduler

Spec == Init /\ [][Next]_vars

\* The registry alone: add_feed, remove_feed, reload_feeds and the file.
NextRegistry == Registry(Urls)

SpecRegistry == InitRegistry /\ [][NextRegistry]_vars

PassOf(t) ==
  \/ FetchFail(t)
  \/ \E e \in Entries : FetchEntry(t, e)
  \/ PostOk(t)
  \/ PostFail(t)
  \/ Sleep2Done(t)

\* One start() coroutine and /check, and nothing else.
NextCheck ==
  \/ PassOf("L1")
  \/ PassOf("K1")
  \/ start("L1")
  \/ Wake("L1")
  \/ cmd_check_feeds("K1")

SpecCheck == Init /\ [][NextCheck]_vars

\* One start() coroutine and the registry edited under its passes.
NextEdit == Registry(PassUrls) \/ PassOf("L1") \/ start("L1") \/ Wake("L1")

SpecEdit == Init /\ [][NextEdit]_vars

\* One start() coroutine alone with stop(): its passes run one after another.
NextSerial ==
  \/ PassOf("L1")
  \/ start("L1")
  \/ Wake("L1")
  \/ stop
  \/ StopFinish

SpecSerial == Init /\ [][NextSerial]_vars

\* The command handlers as Telegram users reach them, and the /check pass.
NextCommands ==
  \/ \E c \in Users, u \in PassUrls, n \in Names : cmd_add_feed(c, u, n)
  \/ \E c \in Users : cmd_list_feeds(c)
  \/ \E c \in Users, u \in PassUrls : cmd_remove_feed(c, u)
  \/ \E c \in Users, k \in Cmds : cmd_check(c, k)
  \/ \E k \in Cmds : PassOf(k)

SpecCommands == Init /\ [][NextCommands]_vars

\* /check passes under every CHANNEL_ID.
NextChannel ==
  \/ \E k \in Cmds : cmd_check_feeds(k)
  \/ \E k \in Cmds : PassOf(k)

SpecChannel == InitChannel /\ [][NextChannel]_vars

\* /check passes whose fetches return whole feeds.
NextFeeds ==
  \/ \E k \in Cmds : cmd_check_feeds(k)
  \/ \E k \in Cmds : FetchFail(k)
  \/ \E k \in Cmds, es \in Feeds : FetchFeed(k, es)
  \/ \E k \in Cmds : PostOk(k)
  \/ \E k \in Cmds : PostFail(k)
  \/ \E k \in Cmds : Sleep2Done(k)

SpecFeeds == Init /\ [][NextFeeds]_vars

\* The same coroutine over a registry loaded from a hand-edited file.
NextRetry ==
  \/ PassOf("L1")
  \/ start("L1")
  \/ Wake("L1")
  \/ stop
  \/ StopFinish

SpecRetry == InitEdited /\ [][NextRetry]_vars

\* The event loop resumes a coroutine whose await is over: a fetch ends (it
\* has a timeout), a send returns or raises, a sleep runs out.
LoopStep(l) == PassOf(l) \/ Wake(l)

SpecRetryFair == SpecRetry /\ WF_vars(LoopStep("L1"))

\* ---------------------------------------------------------------- claims
IsPrefix(a, b) == Len(a) <= Len(b) /\ SubSeq(b, 1, Len(a)) = a

Dispatched == {i \in Ids : sent[i] >= 1}

\* C1: over the process lifetime every identifier is successfully dispatched
\* at most once, also when /check runs a pass while a scheduler pass is
\* suspended between its ledger lookup and its ledger insert.
C1_AtMostOnce == \A i \in Ids : sent[i] <= 1

\* C2: the ledger never loses an identifier, and a check issues a dispatch
\* only for an identifier the ledger does not hold at its lookup, so a check
\* that starts with the identifier in the ledger issues none; with passes run
\* one after another no identifier is delivered a second time.
C2_SeenNotRedispatched ==
  /\ [](\A i \in Ids : sent[i] <= 1 /\ (i \in posted_articles <=> sent[i] = 1))
  /\ [][/\ posted_articles \subseteq posted_articles'
        /\ \A t \in Tasks :
             (pc[t] = "fetch" /\ pc'[t] = "post") =>
               cur'[t] \notin posted_articles]_vars

\* Over a registry of one feed, a pass later than the one that delivered
\* the entry found it in the ledger and skipped it.
C2_Witness ==
  /\ last = "skip_seen"
  /\ Len(feeds) = 1
  /\ visited["L1"] = snapshot["L1"]
  /\ \E i \in Ids : i \in posted_articles /\ sent[i] = 1

\* C3: the ledger holds only identifiers whose dispatch returned success; a
\* failed dispatch leaves the ledger as it was, and a check that finds a
\* non-empty identifier absent from the ledger attempts the dispatch.
C3_MarkedOnlyAfterSuccess ==
  /\ [](posted_articles \subseteq Dispatched)
  /\ [][/\ last' = "post_fail" => posted_articles' = posted_articles
        /\ \A t \in Tasks, e \in Entries :
             (FetchEntry(t, e) /\ entry_id(e) # ""
                /\ entry_id(e) \notin posted_articles)
               => (pc'[t] = "post" /\ cur'[t] = entry_id(e))
        /\ \A t \in Tasks :
             (pc[t] = "post" /\ pc'[t] # "post" /\ cur[t] \notin posted_articles
                /\ last' = "post_fail") => cur[t] \notin posted_articles']_vars

\* A dispatch has failed and its identifier is in neither ledger nor channel.
C3_Witness ==
  /\ last = "post_fail"
  /\ posted_articles = {}
  /\ Dispatched = {}

\* C4: when remove_feed finds the url and the write fails, it returns False
\* and the in-memory registry equals the registry before the call.
C4_FailedRemoveNotApplied ==
  [][\A u \in Urls :
       (remove_feed(u) /\ remove_index(feeds, u) # 0 /\ ~ret') =>
         feeds' = feeds]_vars

\* C5: when add_feed is called with a new url and the write fails, it returns
\* False and the in-memory registry equals the registry before the call.
C5_FailedAddRolledBack ==
  [][\A u \in Urls, n \in Names :
       (add_feed(u, n) /\ ~add_present(feeds, u) /\ ~ret') =>
         (feeds' = feeds /\ ~add_present(feeds', u))]_vars

\* C6: right after an add_feed or remove_feed that returned True, the file
\* loads to the in-memory registry: same feeds, same order.
C6_SuccessWritesThrough ==
  (last \in {"add_feed", "remove_feed"} /\ ret) => load_feeds(disk) = feeds

\* A remove succeeded on a registry that still holds feeds.
C6_Witness ==
  /\ last = "remove_feed"
  /\ ret
  /\ Len(feeds) = 2
  /\ disk.kind = "json"

\* C7: no two feeds of the in-memory registry share a url.
C7_UniqueUrls == DistinctUrls(feeds)

\* An add whose write failed left its feed in a registry of three.
C7_Witness ==
  /\ last = "add_feed"
  /\ ~ret
  /\ Len(feeds) = 3
  /\ load_feeds(disk) # feeds

\* C8: a pass checks exactly the feeds registered when it began, each once,
\* in registry order, whatever add_feed and remove_feed do meanwhile.
C8_PassChecksItsSnapshot ==
  \A t \in Tasks :
    IF pc[t] \in InPass
      THEN IsPrefix(visited[t], snapshot[t])
      ELSE visited[t] = snapshot[t]

\* C9: stop() never closes the client session while a pass of the scheduler
\* loop is between its first and its last feed check.
C9_StopWaitsForPass ==
  [][(last' \in {"stop", "stop_again"} /\ session = "open") =>
       \A l \in Loops : pc[l] \notin InPass]_vars

\* What start() and stop() leave alone when they are no-ops.
lifeFrame == <<feeds, disk, ret, posted_articles, sent, running, pc, idx, old,
               cur, snapshot, visited>>

\* The parts of C10 the code keeps as stated: a loop begins only from
\* Stopped and leaves the monitor Running with a session; stop() leaves it
\* Stopped; start() while Running changes nothing.
C10_StartStop ==
  /\ \A l \in Loops :
       (pc[l] = "idle" /\ pc'[l] # "idle") =>
         (~running /\ running' /\ session' = "open")
  /\ last' = "start" => (~running /\ running')
  /\ last' \in {"stop", "stop_again"} => ~running'
  /\ last' = "start_noop" =>
       (running /\ UNCHANGED <<lifeFrame, session, stopping>>)

\* C10 as stated: stop() called while Stopped changes nothing.
C10_StopWhileStoppedNoop ==
  [][/\ C10_StartStop
     /\ last' = "stop_again" => UNCHANGED <<lifeFrame, session, stopping>>]_vars

\* C10 amended: stop() called while Stopped changes nothing but the client
\* session, which it closes and clears when one is open; with no session
\* held it changes nothing.
C10_StopWhileStoppedReleases ==
  [][/\ C10_StartStop
     /\ last' = "stop_again" =>
          /\ UNCHANGED lifeFrame
          /\ session = "None" => UNCHANGED <<session, stopping>>
          /\ session' \in {"None", "closed"}
          /\ stopping' <=> session' = "closed"]_vars

\* stop() was called while Stopped and is closing a session /check opened.
C10_Witness ==
  /\ last = "stop_again"
  /\ stopping
  /\ session = "closed"

\* C13: add_feed with a url already in the registry returns False and leaves
\* the in-memory registry and the file as they were.
C13_AddPresentUnchanged ==
  [][\A u \in Urls, n \in Names :
       (add_feed(u, n) /\ u \in UrlSet(feeds)) =>
         (~ret' /\ feeds' = feeds /\ disk' = disk)]_vars

\* An add was refused on a registry of three that the file holds as well.
C13_Witness ==
  /\ last = "add_feed"
  /\ ~ret
  /\ Len(feeds) = 3
  /\ load_feeds(disk) = feeds

\* C14: remove_feed with a url that is not in the registry returns False and
\* leaves the in-memory registry and the file as they were.
C14_RemoveAbsentUnchanged ==
  [][\A u \in Urls :
       (remove_feed(u) /\ u \notin UrlSet(feeds)) =>
         (~ret' /\ feeds' = feeds /\ disk' = disk)]_vars

\* A remove was refused on an empty registry with an empty file.
C14_Witness ==
  /\ last = "remove_feed"
  /\ ~ret
  /\ feeds = <<>>
  /\ disk = [kind |-> "json", doc |-> <<>>]

\* C19: once stop() has returned and no pass is in flight, with no start()
\* and no /check since, the monitor holds no client session.
C19_NoSessionAfterStop ==
  (~running /\ ~stopping /\ \A t \in Tasks : pc[t] \notin InPass)
    => session = "None"

\* C20: at most one scheduler loop is running passes at any time.
C20_OneLoop == Cardinality({l \in Loops : pc[l] \in InPass}) <= 1

\* The steps in which the check of one feed fails: the fetch or the parse
\* fails, the entry has no identifier, the dispatch fails.
FailureLabels == {"fetch_fail", "skip_noid", "post_fail"}

NoRepeat(s) == \A i, j \in 1..Len(s) : s[i] = s[j] => i = j

\* C17: a failure on one feed does not end the pass: when feeds remain the
\* pass goes on to the next one, every feed of the registry is checked in
\* registry order by the end of the pass, and no feed is fetched twice.
C17_FailureIsolated ==
  /\ [](\A t \in Tasks :
         /\ IsPrefix(visited[t], snapshot[t])
         /\ NoRepeat(visited[t])
         /\ pc[t] \notin InPass => visited[t] = snapshot[t])
  /\ [][\A t \in Tasks :
         ( /\ last' \in FailureLabels
           /\ pc[t] \in {"fetch", "post"}
           /\ (pc'[t] # pc[t] \/ visited'[t] # visited[t]) ) =>
         IF Len(visited[t]) < Len(snapshot[t])
           THEN /\ Len(visited'[t]) > Len(visited[t])
                /\ session' # "closed" =>
                     /\ pc'[t] = "fetch"
                     /\ Len(visited'[t]) = Len(visited[t]) + 1
           ELSE /\ pc'[t] = AfterPass(t)
                /\ visited'[t] = visited[t]]_vars

\* The /check pass, alone, had its dispatch for the first feed fail and is
\* fetching the second feed.
C17_Witness ==
  /\ last = "post_fail"
  /\ \A l \in Loops : pc[l] = "idle"
  /\ pc["K1"] = "fetch"
  /\ Len(snapshot["K1"]) = 2
  /\ visited["K1"] = snapshot["K1"]

\* C11: an exception that leaves a pass does not end the scheduler: start()
\* catches it, self.running stays as it was, the loop sleeps the 60 second
\* retry delay and not the interval, and when that sleep is over and the
\* flag is still set the next pass begins; only stop() clears the flag.
C11_ErrorKeepsRunning ==
  [][ /\ (running /\ ~running') => last' = "stop"
      /\ \A l \in Loops :
           /\ (pc[l] # "idle" /\ pc'[l] = "idle") => ~running
           /\ (pc[l] \in InPass /\ pc'[l] \notin InPass) =>
                /\ running' = running
                /\ pc'[l] = IF NextFeed(ListOf(l), idx[l], session).raised
                              THEN "retry" ELSE "sleep"
           /\ (pc[l] = "retry" /\ running /\ last' = "wake") =>
                /\ snapshot'[l] = SeqUrls(feeds)
                /\ pc'[l] = IF feeds[1].name = Absent THEN "retry" ELSE "fetch"
           /\ (pc[l] = "retry" /\ pc'[l] # "retry") =>
                IF running THEN last' = "wake" ELSE pc'[l] = "idle" ]_vars

\* After an exception and the retry delay the loop, still running, is
\* fetching the first feed again; the second feed has no name.
C11_Witness ==
  /\ last = "wake"
  /\ running
  /\ pc["L1"] = "fetch"
  /\ Len(feeds) = 2
  /\ feeds[2].name = Absent

\* C12: while stop() has cleared the flag and no start() has set it again, a
\* loop that is asleep begins no pass: it sleeps on or returns; and the
\* loop's coroutine returns in the end.
C12_StopEndsLoop ==
  /\ [][\A l \in Loops :
         (~running /\ pc[l] \in Sleeping) =>
           \/ pc'[l] = "idle"
           \/ /\ pc'[l] = pc[l]
              /\ snapshot'[l] = snapshot[l]
              /\ visited'[l] = visited[l]]_vars
  /\ ~running ~> (running \/ pc["L1"] = "idle")

\* The loop returned at its while test after a stop(), having checked both
\* feeds of the registry.
C12_Witness ==
  /\ last = "exit"
  /\ ~running
  /\ pc["L1"] = "idle"
  /\ Len(visited["L1"]) = 2

\* C15: /add, /remove, /list and /check test the caller against ADMIN_IDS
\* before anything else: a command from a user who is not on the list calls
\* no registry operation and no pass, and changes neither the registry, nor
\* the file, nor the ledger, nor anything a pass keeps.
C15_NonAdminChangesNothing ==
  [][\A c \in Users :
       ( /\ ToString(c) \notin ADMIN_IDS
         /\ \/ \E u \in PassUrls, n \in Names : cmd_add_feed(c, u, n)
            \/ \E u \in PassUrls : cmd_remove_feed(c, u)
            \/ cmd_list_feeds(c)
            \/ \E k \in Cmds : cmd_check(c, k) ) =>
       UNCHANGED <<feeds, disk, ret, posted_articles, sent, running, session,
                   stopping, pc, idx, old, cur, snapshot, visited>>]_vars

\* A command was refused while the registry held a feed and the ledger an
\* identifier.
C15_Witness ==
  /\ last = "denied"
  /\ feeds # <<>>
  /\ posted_articles # {}

\* A string of digits with at most one "-" in front.
SignedNumeric(s) ==
  LET d == IF startswith(s, "-") THEN Tail(s) ELSE s
  IN d # <<>> /\ \A i \in 1..Len(d) : d[i] \in Digits

NormalizedAsClaimed(s) ==
  IF startswith(s, "@") \/ SignedNumeric(s) THEN s ELSE <<"@">> \o s

\* C16: the chat_id of every send is CHANNEL_ID itself when that starts with
\* "@" or is digits with at most one leading "-", and "@" followed by
\* CHANNEL_ID otherwise; normalizing the chat_id again changes nothing.
C16_ChannelIdNormalized ==
  \A t \in Tasks :
    pc[t] = "post" =>
      /\ chat_id[t] = NormalizedAsClaimed(CHANNEL_ID)
      /\ NormalizedAsClaimed(chat_id[t]) = chat_id[t]

\* The identifier the claim gives an entry: its id, its link when it has no
\* id, none when it has neither.
ClaimedIdentifier(e) ==
  IF e.id # Absent THEN e.id ELSE IF e.link # Absent THEN e.link ELSE Absent

\* C18: the check of one feed dispatches one entry at most, and that entry
\* is the first of the feed; its identifier is the id, or the link when the
\* entry has no id; an entry with neither is skipped with no dispatch and
\* no change of the ledger.
C18_FirstEntryOnly ==
  [][ /\ \A t \in Tasks, es \in Feeds :
           FetchFeed(t, es) =>
             /\ pc'[t] = "post" => cur'[t] = ClaimedIdentifier(es[1])
             /\ ClaimedIdentifier(es[1]) = Absent => pc'[t] # "post"
             /\ ClaimedIdentifier(es[1]) \notin posted_articles \cup {Absent, ""}
                  => pc'[t] = "post"
             /\ posted_articles' = posted_articles
             /\ sent' = sent
      /\ \A t \in Tasks :
           /\ (pc'[t] = "post" /\ pc[t] # "post") => pc[t] = "fetch"
           /\ (pc[t] \in {"post", "sleep2"} /\ pc'[t] = "fetch") =>
                Len(visited'[t]) = Len(visited[t]) + 1
      /\ posted_articles' # posted_articles =>
           \E t \in Tasks :
             /\ pc[t] = "post"
             /\ posted_articles' = posted_articles \cup {cur[t]} ]_vars

\* The first entry had no id and is being dispatched under its link, which
\* is not in the ledger while the id "e1" of an earlier entry is.
C18_Witness ==
  /\ last = "dispatch"
  /\ pc["K1"] = "post"
  /\ cur["K1"] = "l1"
  /\ posted_articles = {"e1"}
=============================================================================
